---- MODULE Spec2Model ----
(***************************************************************************)
(* Model of the gold/silver price checker: the multi-key fetch cycle of    *)
(* goldapi-fetcher.js (fetchPricesFromGoldAPI), and the two entry points   *)
(* that consume it (cron-job.js `run`, send-to-chat `fetchAndSend`) with   *)
(* the history store, the activity log file and the chat webhook.          *)
(*                                                                         *)
(* One action is one run-to-completion step of the JavaScript event loop:  *)
(* the code that runs from the settling of one awaited HTTP request up to  *)
(* the next await (or the return).                                         *)
(*                                                                         *)
(* Numbers: IEEE doubles are modelled in fixed point.  Prices are whole    *)
(* PKR (floor), the exchange rate is in hundredths of PKR per USD, and a   *)
(* number is a record [fin, v]; fin = FALSE stands for NaN / Infinity.     *)
(***************************************************************************)
EXTENDS Integers, Sequences, FiniteSets, TLC

\* ------------------------------------------------------------------ bounds
\* Longest list of GOLDAPI_KEY* environment entries of a bare fetch cycle.
MaxKeys == 3
\* Longest list of GOLDAPI_KEY* environment entries under an entry point.
MaxRunKeys == 1
\* Longest array handed to shuffleArray on its own.
MaxShuffleLen == 3
\* Most calls of updateHistory in a row on one history file.
MaxHistoryCalls == 2
\* Longest list of GOLDAPI_KEY* environment entries under fair scheduling.
MaxLiveKeys == 2

\* --------------------------------------------------------------- constants
\* 282.81, the fallback USD->PKR rate, in hundredths.
FallbackRateCents == 28281
\* 31.1035 grams per troy ounce, times 10^4.
OunceGramsE4 == 311035
\* GRAMS_IN_TOLA = 11.6638038, split as 11 + 6638/10^4 + 38/10^7.
TolaWhole == 11
TolaFracE4 == 6638
TolaFracE7 == 38
\* Number of characters kept at each end of a masked key.
MaskLen == 4

\* ----------------------------------------------------- credentials, strings
\* A string is a sequence of characters, so that trim() and substring() are
\* computed rather than assumed.
KeyA == <<"g", "o", "l", "d", "a", "p", "i", "-", "A">>
KeyB == <<"k", "e", "y", "-", "B">>
BlankEmpty == <<>>
BlankSpaces == <<" ", " ">>
EnvValues == {KeyA, KeyB, BlankEmpty, BlankSpaces}

\* All sequences over S of length at most n.
SeqUpTo(S, n) == UNION {[1..k -> S] : k \in 0..n}

\* The environments considered: Object.keys(process.env) lists the entries in
\* some order, which the shuffle discards; one listing order stands for all
\* listings of the same entries.
ListingOrder == <<KeyA, KeyB, BlankSpaces, BlankEmpty>>
Rank(val) == CHOOSE i \in 1..Len(ListingOrder) : ListingOrder[i] = val
Environments(n) ==
  {e \in SeqUpTo(EnvValues, n) :
     \A i \in 1..(Len(e) - 1) : Rank(e[i]) <= Rank(e[i + 1])}

\* String.prototype.trim() !== '' : some character is not white space.
IsBlank(val) == \A i \in 1..Len(val) : val[i] = " "

\* getAvailableApiKeys over the values of the GOLDAPI_KEY* entries:
\* .filter(val => val && val.trim() !== '')
\* The filter without the trim().
NonBlankNoTrim(val) == val # <<>>
NonBlank(val) == val # <<>> /\ ~IsBlank(val)
RECURSIVE getAvailableApiKeys(_)
getAvailableApiKeys(environment) ==
  IF environment = <<>> THEN <<>>
  ELSE IF NonBlank(Head(environment))
       THEN <<Head(environment)>> \o getAvailableApiKeys(Tail(environment))
       ELSE getAvailableApiKeys(Tail(environment))

\* String.prototype.substring(from, to) with 0-based, clamped arguments.
Clamp(n, len) == IF n < 0 THEN 0 ELSE IF n > len THEN len ELSE n
Substring(s, from, to) ==
  LET a == Clamp(from, Len(s))
      b == Clamp(to, Len(s))
      lo == IF a < b THEN a ELSE b
      hi == IF a < b THEN b ELSE a
  IN SubSeq(s, lo + 1, hi)

\* maskedKey = key.substring(0, 4) + '...' + key.substring(key.length - 4)
maskedKey(key) ==
  Substring(key, 0, MaskLen) \o <<".", ".", ".">>
    \o Substring(key, Len(key) - MaskLen, Len(key))

\* ----------------------------------------------------------------- shuffle
\* The random draws of one shuffle: for every i a j with 0 <= j <= i
\* (1-based here: 1 <= j <= i), as Math.floor(Math.random() * (i + 1)).
\* Variant drawing j strictly below i, as Math.floor(Math.random() * i) would.
RandomDrawsBelow(n) == {r \in [2..n -> 1..n] : \A i \in 2..n : r[i] < i}

RandomDraws(n) == {r \in [2..n -> 1..n] : \A i \in 2..n : r[i] <= i}

Swap(array, i, j) ==
  [k \in 1..Len(array) |->
     IF k = i THEN array[j] ELSE IF k = j THEN array[i] ELSE array[k]]

\* The loop of shuffleArray from index i down to 2.
RECURSIVE ShuffleFrom(_, _, _)
ShuffleFrom(array, i, draws) ==
  IF i < 2 THEN array
  ELSE ShuffleFrom(Swap(array, i, draws[i]), i - 1, draws)

shuffleArray(array, draws) == ShuffleFrom(array, Len(array), draws)

\* ----------------------------------------------------------------- numbers
Num(n) == [fin |-> TRUE, v |-> n]
NaN == [fin |-> FALSE, v |-> 0]

\* <<floor(a * 10^k / d), remainder>> without leaving 32 bits.
RECURSIVE ScaleDiv(_, _, _)
ScaleDiv(a, d, k) ==
  IF k = 0 THEN <<a \div d, a % d>>
  ELSE LET p == ScaleDiv(a, d, k - 1)
       IN <<p[1] * 10 + (p[2] * 10) \div d, (p[2] * 10) % d>>

\* Multiplication of a finite whole number by the rate read from the rate
\* endpoint; a rate that is not a number (a string such as "N/A") gives NaN.
TimesRate(n, rate, k) ==
  IF n.fin /\ rate.num THEN Num(ScaleDiv(n.v * rate.v, 100, k)[1]) ELSE NaN

\* ------------------------------------------------------- price API payloads
\* response.data of a 2xx answer.  falsy: an empty body (null / "").
\* error: the `error` field, "" when absent.
NullData ==
  [falsy |-> TRUE, error |-> "", hasPg |-> FALSE, pg |-> 0,
   hasPrice |-> FALSE, price |-> 0]
ErrorBody ==
  [falsy |-> FALSE, error |-> "Invalid API Key", hasPg |-> FALSE, pg |-> 0,
   hasPrice |-> FALSE, price |-> 0]
QuoteDirect ==
  [falsy |-> FALSE, error |-> "", hasPg |-> TRUE, pg |-> 100,
   hasPrice |-> TRUE, price |-> 3100]
QuoteOunce ==
  [falsy |-> FALSE, error |-> "", hasPg |-> FALSE, pg |-> 0,
   hasPrice |-> TRUE, price |-> 3100]
QuoteBare ==
  [falsy |-> FALSE, error |-> "", hasPg |-> FALSE, pg |-> 0,
   hasPrice |-> FALSE, price |-> 0]
Bodies == {NullData, ErrorBody, QuoteDirect, QuoteOunce, QuoteBare}

\* The error axios throws: without a response (network failure, timeout) or
\* with the body of a non-2xx response.
NetworkError == [hasResponse |-> FALSE, error |-> ""]
QuotaError == [hasResponse |-> TRUE, error |-> "Monthly API quota exceeded"]
Thrown == {NetworkError, QuotaError}

\* The error texts that contain the substring 'quota exceeded'.
QuotaTexts == {"Monthly API quota exceeded"}

\* isQuotaError(error)
isQuotaError(error) == error.hasResponse /\ error.error \in QuotaTexts

\* The request fetchGoldPrice / fetchSilverPrice send: keyToUse = apiKey.
fetchGoldPrice(currency, apiKey) ==
  [metal |-> "XAU", currency |-> currency, token |-> apiKey]
\* The silver request with the key argument dropped (the legacy pick).
fetchSilverPriceLegacy(currency, apiKey) ==
  [metal |-> "XAG", currency |-> currency, token |-> KeyA]
fetchSilverPrice(currency, apiKey) ==
  [metal |-> "XAG", currency |-> currency, token |-> apiKey]

\* Line 158 without the silver half.
TrialSucceedsGoldOnly(gold, silver) == ~gold.falsy /\ gold.error = ""
\* The condition of line 158, with JavaScript truthiness.
TrialSucceeds(gold, silver) ==
  /\ ~gold.falsy /\ gold.error = ""
  /\ ~silver.falsy /\ silver.error = ""

\* ---------------------------------------------------------- exchange rate
FallbackRate == [num |-> TRUE, v |-> FallbackRateCents]
NotANumber == [num |-> FALSE, v |-> 0]
RateTimeout ==
  [threw |-> TRUE, hasRates |-> FALSE, hasPKR |-> FALSE, pkr |-> NotANumber]
RateNoRates ==
  [threw |-> FALSE, hasRates |-> FALSE, hasPKR |-> FALSE, pkr |-> NotANumber]
RateNoPKR ==
  [threw |-> FALSE, hasRates |-> TRUE, hasPKR |-> FALSE, pkr |-> NotANumber]
RateZero ==
  [threw |-> FALSE, hasRates |-> TRUE, hasPKR |-> TRUE,
   pkr |-> [num |-> TRUE, v |-> 0]]
RateGood ==
  [threw |-> FALSE, hasRates |-> TRUE, hasPKR |-> TRUE,
   pkr |-> [num |-> TRUE, v |-> 28000]]
RateText ==
  [threw |-> FALSE, hasRates |-> TRUE, hasPKR |-> TRUE, pkr |-> NotANumber]
RateOutcomes ==
  {RateTimeout, RateNoRates, RateNoPKR, RateZero, RateGood, RateText}
NoRateYet == RateTimeout

\* A truthy JavaScript value: a non-zero number or a non-empty string.
TruthyRate(pkr) == ~pkr.num \/ pkr.v # 0

\* The try block of getUSDtoPKR: `response.data.rates.PKR || 282.81`.
\* Reading .PKR of an absent `rates` throws a TypeError.
RateTryBlock(resp) ==
  IF resp.threw \/ ~resp.hasRates
  THEN [threw |-> TRUE, value |-> NotANumber]
  ELSE [threw |-> FALSE,
        value |-> IF resp.hasPKR /\ TruthyRate(resp.pkr)
                  THEN resp.pkr ELSE FallbackRate]

\* getUSDtoPKR: the catch block turns every throw into the fallback.
getUSDtoPKR(resp) ==
  LET t == RateTryBlock(resp)
  IN IF t.threw
     THEN [raised |-> FALSE, warned |-> TRUE, rate |-> FallbackRate]
     ELSE [raised |-> FALSE, warned |-> FALSE, rate |-> t.value]

\* ------------------------------------------------------------ normalisation
\* A field of a quote as a JavaScript number; undefined coerces to NaN.
PgOf(data) == IF data.hasPg THEN Num(data.pg) ELSE NaN
\* `if (data.price_gram_24k)`: present and not 0.
HasDirect(data) == data.hasPg /\ data.pg # 0

\* (price / 31.1035) * rate, and ((price * 1000) / 31.1035) * rate
PerOunce(data, rate, k) ==
  IF data.hasPrice /\ rate.num
  THEN Num(ScaleDiv(data.price * rate.v, OunceGramsE4, k)[1])
  ELSE NaN

\* goldPerGram of lines 188-194
GoldPerGram(data, rate) ==
  IF HasDirect(data) THEN TimesRate(PgOf(data), rate, 0)
  ELSE PerOunce(data, rate, 2)

\* silverPerKg of lines 196-202; the factor 1000 is 10^3 on top of the
\* scale of the per-gram value.
SilverPerKg(data, rate) ==
  IF HasDirect(data) THEN TimesRate(PgOf(data), rate, 3)
  ELSE PerOunce(data, rate, 5)

\* ------------------------------------------------------------------- state
VARIABLES
  entry,        \* who runs the cycle: "import", "cron" or "send"
  env,          \* values of the GOLDAPI_KEY* environment entries
  pc,           \* position of the fetch cycle
  keys,         \* the shuffled pool
  idx,          \* position in keys of the trial in progress (0: none)
  goldData,     \* let goldData
  silverData,   \* let silverData
  success,      \* let success
  goldFrom,     \* trial whose gold call produced goldData (0: none)
  silverFrom,   \* trial whose silver call produced silverData (0: none)
  calls,        \* price-API requests issued, in order
  inflight,     \* HTTP requests issued and not yet answered, in order of issue
  rateCalls,    \* number of exchange-rate requests issued
  rateResp,     \* what the exchange-rate request settled with
  pkrRate,      \* const pkrRate
  log,          \* console output of the cycle, in order
  trials,       \* the finished trials: [key, outcome]
  result,       \* what fetchPricesFromGoldAPI returned
  runPc,        \* position of the entry point
  steps,        \* the stages the entry point went through, in order
  historyFile,  \* prices.json
  historyArgs,  \* the arguments of the calls of updateHistory
  historyRets,  \* what the calls of updateHistory returned
  logFile,      \* update_log.txt
  webhookUrl,   \* GOOGLE_CHAT_WEBHOOK_URL is set
  sendArgs,     \* the arguments of the calls of sendToGoogleChat
  posts,        \* the webhook POSTs issued
  exitCode,     \* exit status of the process (-1: still running)
  clock         \* readings of new Date() so far

fetchVars ==
  <<env, pc, keys, idx, goldData, silverData, success, goldFrom, silverFrom,
    calls, inflight, rateCalls, rateResp, pkrRate, log, trials, result>>

sinkVars ==
  <<runPc, steps, historyFile, historyArgs, historyRets, logFile, webhookUrl,
    sendArgs, posts, exitCode, clock>>

vars == <<entry, fetchVars, sinkVars>>

\* `return null` and the returned snapshot.
NullResult ==
  [isNull |-> TRUE, gold |-> NaN, silver |-> NaN, goldRaw |-> NullData,
   silverRaw |-> NullData, source |-> ""]
\* The two fatal returns: line 140 (no key configured) and line 178 (every
\* key failed).
NoCredentialsError == NullResult
AllCredentialsExhaustedError == NullResult
Snapshot(gold, silver, rate) ==
  [isNull |-> FALSE, gold |-> GoldPerGram(gold, rate),
   silver |-> SilverPerKg(silver, rate), goldRaw |-> gold,
   silverRaw |-> silver, source |-> "GoldAPI.io"]

Line(msg, key) == [msg |-> msg, key |-> key]
NoKey == <<>>

\* The request of getUSDtoPKR (line 104).
RateRequest == [metal |-> "rate", currency |-> "USD", token |-> NoKey]
\* The requests still unanswered once the awaited one, the oldest, has
\* settled; outside an await nothing settles.
Outstanding ==
  IF pc \in {"await_gold", "await_silver", "await_rate"}
  THEN Tail(inflight) ELSE inflight
\* The await resumes on the answer to the oldest unanswered request.
Awaiting(metal) == inflight # <<>> /\ Head(inflight).metal = metal

InitFetch(maxKeys) ==
  /\ env \in Environments(maxKeys)
  /\ pc = "start"
  /\ keys = <<>>
  /\ idx = 0
  /\ goldData = NullData
  /\ silverData = NullData
  /\ success = FALSE
  /\ goldFrom = 0
  /\ silverFrom = 0
  /\ calls = <<>>
  /\ inflight = <<>>
  /\ rateCalls = 0
  /\ rateResp = NoRateYet
  /\ pkrRate = FallbackRate
  /\ log = <<>>
  /\ trials = <<>>
  /\ result = NullResult

\* ------------------------------------------------------------ fetch cycle
\* The head of one iteration of `for (const key of keys)`: the attempt is
\* logged and the gold request goes out; the cycle then awaits it.
\* Variant issuing both requests of a trial at once, as a Promise.all would.
BeginTrialParallel(order, i, soFar, printed) ==
  /\ idx' = i
  /\ calls' = soFar \o <<fetchGoldPrice("USD", order[i]),
                        fetchSilverPrice("USD", order[i])>>
  /\ inflight' = Outstanding \o <<fetchGoldPrice("USD", order[i]),
                                 fetchSilverPrice("USD", order[i])>>
  /\ log' = Append(printed, Line("attempt", maskedKey(order[i])))
  /\ pc' = "await_gold"
  /\ UNCHANGED <<success, rateCalls, result>>

BeginTrial(order, i, soFar, printed) ==
  /\ idx' = i
  /\ calls' = Append(soFar, fetchGoldPrice("USD", order[i]))
  /\ inflight' = Append(Outstanding, fetchGoldPrice("USD", order[i]))
  /\ log' = Append(printed, Line("attempt", maskedKey(order[i])))
  /\ pc' = "await_gold"
  /\ UNCHANGED <<success, rateCalls, result>>

\* The end of the loop without the `if (!success)` return.
AllKeysFailedUnchecked(soFar, printed) ==
  /\ calls' = soFar
  /\ inflight' = Outstanding
  /\ log' = printed
  /\ result' = Snapshot(goldData, silverData, FallbackRate)
  /\ pc' = "returned"
  /\ UNCHANGED <<idx, success, rateCalls>>

\* After the loop without success (lines 176-179).
AllKeysFailed(soFar, printed) ==
  /\ calls' = soFar
  /\ inflight' = Outstanding
  /\ log' = Append(printed, Line("allfailed", NoKey))
  /\ result' = AllCredentialsExhaustedError
  /\ pc' = "returned"
  /\ UNCHANGED <<idx, success, rateCalls>>

\* Variant trying every key a second time before moving on.
NextIterationRetry(soFar, printed) ==
  IF Len(trials) = 2 * (idx - 1)
  THEN BeginTrial(keys, idx, soFar, printed)
  ELSE IF idx < Len(keys)
  THEN BeginTrial(keys, idx + 1, soFar, printed)
  ELSE AllKeysFailed(soFar, printed)

\* The loop goes on after a failed trial: next key, or the end of the loop.
NextIteration(soFar, printed) ==
  IF idx < Len(keys)
  THEN BeginTrial(keys, idx + 1, soFar, printed)
  ELSE AllKeysFailed(soFar, printed)

\* Lines 133-141 and the first iteration.
FetchStart ==
  /\ pc = "start"
  /\ \E draws \in RandomDraws(Len(getAvailableApiKeys(env))) :
       LET order == shuffleArray(getAvailableApiKeys(env), draws)
           printed == Append(log, Line("start", NoKey))
       IN /\ keys' = order
          /\ IF Len(order) = 0
             THEN /\ log' = Append(printed, Line("nokeys", NoKey))
                  /\ result' = NoCredentialsError
                  /\ pc' = "returned"
                  /\ UNCHANGED <<idx, calls, inflight, success, rateCalls>>
             ELSE BeginTrial(order, 1, calls, printed)
  /\ UNCHANGED <<entry, env, goldData, silverData, goldFrom, silverFrom,
                 rateResp, pkrRate, trials, sinkVars>>

\* The catch block of lines 163-173.
CatchBlock(error) ==
  Append(Append(log, Line("error", maskedKey(keys[idx]))),
         Line(IF isQuotaError(error) THEN "quota" ELSE "failed",
              maskedKey(keys[idx])))

\* A gold answer with an error field ends the trial at once.
GoldResolvesShortCircuit ==
  /\ pc = "await_gold"
  /\ Awaiting("XAU")
  /\ \E body \in Bodies :
       /\ goldData' = body
       /\ goldFrom' = idx
       /\ IF body.error # ""
          THEN /\ trials' = Append(trials, [key |-> keys[idx], outcome |-> "logical"])
               /\ NextIteration(calls, log)
          ELSE /\ calls' = Append(calls, fetchSilverPrice("USD", keys[idx]))
               /\ inflight' = Append(Outstanding,
                                     fetchSilverPrice("USD", keys[idx]))
               /\ pc' = "await_silver"
               /\ UNCHANGED <<idx, success, rateCalls, log, trials, result>>
  /\ UNCHANGED <<entry, env, keys, silverData, silverFrom, rateResp, pkrRate,
                 sinkVars>>

\* The gold request settles with a 2xx answer: goldData is assigned and the
\* silver request goes out with the key of this iteration.
GoldResolves ==
  /\ pc = "await_gold"
  /\ Awaiting("XAU")
  /\ \E body \in Bodies :
       /\ goldData' = body
       /\ goldFrom' = idx
  /\ calls' = Append(calls, fetchSilverPrice("USD", keys[idx]))
  /\ inflight' = Append(Outstanding, fetchSilverPrice("USD", keys[idx]))
  /\ pc' = "await_silver"
  /\ UNCHANGED <<entry, env, keys, idx, silverData, success, silverFrom,
                 rateCalls, rateResp, pkrRate, log, trials, result, sinkVars>>

\* The gold request throws: catch, then the next iteration.
GoldRejects ==
  /\ pc = "await_gold"
  /\ Awaiting("XAU")
  /\ \E error \in Thrown :
       /\ trials' = Append(trials, [key |-> keys[idx], outcome |-> "gold_threw"])
       /\ NextIteration(calls, CatchBlock(error))
  /\ UNCHANGED <<entry, env, keys, goldData, silverData, goldFrom, silverFrom,
                 rateResp, pkrRate, sinkVars>>

\* How a trial whose two calls both returned ended.
Outcome(gold, silver) ==
  IF TrialSucceeds(gold, silver) THEN "success"
  ELSE IF gold.error # "" \/ silver.error # "" THEN "logical"
  ELSE "empty"

\* The silver request settles with a 2xx answer: silverData is assigned and
\* line 158 decides.  On success the loop is left and the exchange-rate
\* request goes out; otherwise the loop goes on, with nothing logged.
SilverResolves ==
  /\ pc = "await_silver"
  /\ Awaiting("XAG")
  /\ \E body \in Bodies :
       /\ silverData' = body
       /\ silverFrom' = idx
       /\ trials' = Append(trials, [key |-> keys[idx],
                                    outcome |-> Outcome(goldData, body)])
       /\ IF TrialSucceeds(goldData, body)
          THEN /\ success' = TRUE
               /\ log' = Append(log, Line("success", maskedKey(keys[idx])))
               /\ rateCalls' = rateCalls + 1
               /\ inflight' = Append(Outstanding, RateRequest)
               /\ pc' = "await_rate"
               /\ UNCHANGED <<idx, calls, result>>
          ELSE NextIteration(calls, log)
  /\ UNCHANGED <<entry, env, keys, goldData, goldFrom, rateResp, pkrRate,
                 sinkVars>>

\* The silver request throws: catch, then the next iteration.
SilverRejects ==
  /\ pc = "await_silver"
  /\ Awaiting("XAG")
  /\ \E error \in Thrown :
       /\ trials' = Append(trials, [key |-> keys[idx], outcome |-> "silver_threw"])
       /\ NextIteration(calls, CatchBlock(error))
  /\ UNCHANGED <<entry, env, keys, goldData, silverData, goldFrom, silverFrom,
                 rateResp, pkrRate, sinkVars>>

\* The exchange-rate request settles; lines 182-210.
RateSettles ==
  /\ pc = "await_rate"
  /\ Awaiting("rate")
  /\ \E resp \in RateOutcomes :
       LET got == getUSDtoPKR(resp)
       IN /\ ~got.raised
          /\ rateResp' = resp
          /\ pkrRate' = got.rate
          /\ log' = IF got.warned THEN Append(log, Line("ratewarn", NoKey))
                    ELSE log
          /\ result' = Snapshot(goldData, silverData, got.rate)
  /\ inflight' = Outstanding
  /\ pc' = "returned"
  /\ UNCHANGED <<entry, env, keys, idx, goldData, silverData, success,
                 goldFrom, silverFrom, calls, rateCalls, trials, sinkVars>>

\* ------------------------------------------------------------ unit converter
\* n * GRAMS_IN_TOLA
TimesTola(n) ==
  IF n.fin
  THEN Num(n.v * TolaWhole + (n.v * TolaFracE4) \div 10000
           + (n.v * TolaFracE7) \div 10000000)
  ELSE NaN

\* calculateTolaPrices(goldPerGram, silverPerKg); the ratio is in hundredths,
\* and a division by zero gives a non-finite number.
calculateTolaPrices(goldPerGram, silverPerKg) ==
  LET goldPerTola == TimesTola(goldPerGram)
      silverPerGram == IF silverPerKg.fin THEN Num(silverPerKg.v \div 1000)
                       ELSE NaN
      silverPerTola == TimesTola(silverPerGram)
      ratio == IF goldPerTola.fin /\ silverPerTola.fin /\ silverPerTola.v # 0
               THEN Num((goldPerTola.v * 100) \div silverPerTola.v)
               ELSE NaN
  IN [gold |-> [perGram |-> goldPerGram, perTola |-> goldPerTola],
      silver |-> [perKg |-> silverPerKg, perTola |-> silverPerTola],
      ratio |-> ratio]

\* ------------------------------------------------------------ history store
\* prices.json: absent, unparsable, parsable but no array, or an array.
FileAbsent ==
  [exists |-> FALSE, parses |-> FALSE, isArray |-> FALSE, entries |-> <<>>]
FileCorrupt ==
  [exists |-> TRUE, parses |-> FALSE, isArray |-> FALSE, entries |-> <<>>]
FileNoArray ==
  [exists |-> TRUE, parses |-> TRUE, isArray |-> FALSE, entries |-> <<>>]
FileOf(entries) ==
  [exists |-> TRUE, parses |-> TRUE, isArray |-> TRUE, entries |-> entries]

\* JSON.stringify of a number: NaN and Infinity are written as null.
Json(n) == IF n.fin THEN [null |-> FALSE, v |-> n.v] ELSE [null |-> TRUE, v |-> 0]

\* newEntry of updateHistory, as it is written to the file.
NewEntry(date, prices) ==
  [date |-> date,
   gold |-> [perGram |-> Json(prices.gold.perGram),
             perTola |-> Json(prices.gold.perTola)],
   silver |-> [perKg |-> Json(prices.silver.perKg),
               perTola |-> Json(prices.silver.perTola)],
   ratio |-> Json(prices.ratio)]

OldEntry ==
  [date |-> 0,
   gold |-> [perGram |-> Json(Num(28000)), perTola |-> Json(Num(326586))],
   silver |-> [perKg |-> Json(Num(280000)), perTola |-> Json(Num(3265))],
   ratio |-> Json(Num(10002))]

HistoryFiles == {FileAbsent, FileCorrupt, FileNoArray, FileOf(<<>>), FileOf(<<OldEntry>>)}

\* The history read from the file (lines 14-26 of history-manager.js).
ReadHistory(file) ==
  IF file.exists /\ file.parses /\ file.isArray THEN file.entries ELSE <<>>

\* How the file-system calls of updateHistory end: all succeed; one throws
\* with the file untouched (existsSync, readFileSync, or writeFileSync on
\* opening the file); writeFileSync throws after it has opened the file, which
\* truncates it, and before the text is written out.
IoOutcomes == {"ok", "throws", "torn"}

\* updateHistory(prices): the file afterwards and the value returned.  The
\* catch block turns a throwing file-system call into `false`.
updateHistory(file, prices, date, io) ==
  IF io = "throws" THEN [file |-> file, ret |-> FALSE]
  ELSE IF io = "torn" THEN [file |-> FileCorrupt, ret |-> FALSE]
  ELSE [file |-> FileOf(Append(ReadHistory(file), NewEntry(date, prices))),
        ret |-> TRUE]

\* ------------------------------------------------------------- entry points
\* Number.prototype.toFixed
ToFixed(n) ==
  IF n.fin THEN [shown |-> "digits", v |-> n.v] ELSE [shown |-> "NaN", v |-> 0]

\* formatPriceMessage(goldPerGram, silverPerKg, source)
formatPriceMessage(goldPerGram, silverPerKg, source) ==
  LET calculated == calculateTolaPrices(goldPerGram, silverPerKg)
  IN [goldPerGram |-> ToFixed(calculated.gold.perGram),
      goldPerTola |-> ToFixed(calculated.gold.perTola),
      silverPerKg |-> ToFixed(calculated.silver.perKg),
      silverPerTola |-> ToFixed(calculated.silver.perTola),
      ratio |-> ToFixed(calculated.ratio),
      source |-> source]

InitSinks ==
  /\ runPc = "fetching"
  /\ steps = <<>>
  /\ historyFile \in HistoryFiles
  /\ historyArgs = <<>>
  /\ historyRets = <<>>
  /\ logFile = <<>>
  /\ webhookUrl \in BOOLEAN
  /\ sendArgs = <<>>
  /\ posts = <<>>
  /\ exitCode = -1
  /\ clock = 0

\* run() without the history step.
CronAfterFetchNoHistory ==
  /\ entry = "cron" /\ pc = "returned" /\ runPc = "fetching"
  /\ IF result.isNull
     THEN /\ exitCode' = 1
          /\ runPc' = "exited"
          /\ steps' = steps \o <<"fetch", "exit">>
          /\ UNCHANGED historyArgs
     ELSE /\ historyArgs' =
               Append(historyArgs, calculateTolaPrices(result.gold, result.silver))
          /\ steps' = steps \o <<"fetch", "convert">>
          /\ runPc' = "logging"
          /\ UNCHANGED exitCode
  /\ UNCHANGED <<entry, fetchVars, historyFile, historyRets, clock, logFile,
                 webhookUrl, sendArgs, posts>>

\* cron-job.js run(), from the return of fetchPricesFromGoldAPI to the await
\* of updateHistory: exit(1) without prices, else the conversion and the
\* whole of updateHistory, whose result run() does not look at.
CronAfterFetch ==
  /\ entry = "cron" /\ pc = "returned" /\ runPc = "fetching"
  /\ IF result.isNull
     THEN /\ exitCode' = 1
          /\ runPc' = "exited"
          /\ steps' = steps \o <<"fetch", "exit">>
          /\ UNCHANGED <<historyFile, historyArgs, historyRets, clock>>
     ELSE \E io \in IoOutcomes :
            LET calculated == calculateTolaPrices(result.gold, result.silver)
                done == updateHistory(historyFile, calculated, clock + 1, io)
            IN /\ historyArgs' = Append(historyArgs, calculated)
               /\ historyFile' = done.file
               /\ historyRets' = Append(historyRets, done.ret)
               /\ clock' = clock + 1
               /\ steps' = steps \o <<"fetch", "convert", "updateHistory">>
               /\ runPc' = "logging"
               /\ UNCHANGED exitCode
  /\ UNCHANGED <<entry, fetchVars, logFile, webhookUrl, sendArgs, posts>>

\* logActivity(calculated) and process.exit(0); a failing append is caught
\* inside logActivity.
CronLogAndExit ==
  /\ entry = "cron" /\ runPc = "logging"
  /\ \E ioFails \in BOOLEAN :
       /\ logFile' = IF ioFails THEN logFile
                     ELSE Append(logFile,
                                 [date |-> clock + 1,
                                  gold |-> ToFixed(historyArgs[Len(historyArgs)].gold.perTola),
                                  silver |-> ToFixed(historyArgs[Len(historyArgs)].silver.perTola)])
  /\ clock' = clock + 1
  /\ steps' = steps \o <<"logActivity", "exit">>
  /\ exitCode' = 0
  /\ runPc' = "exited"
  /\ UNCHANGED <<entry, fetchVars, historyFile, historyArgs, historyRets,
                 webhookUrl, sendArgs, posts>>

\* fetchAndSend(), from the return of fetchPricesFromGoldAPI to the await of
\* the POST.  Nothing sets an exit status: the process ends with status 0.
SendAfterFetch ==
  /\ entry = "send" /\ pc = "returned" /\ runPc = "fetching"
  /\ IF result.isNull
     THEN /\ exitCode' = 0
          /\ runPc' = "exited"
          /\ steps' = steps \o <<"fetch", "exit">>
          /\ UNCHANGED <<sendArgs, posts>>
     ELSE LET message == formatPriceMessage(result.gold, result.silver,
                                            result.source)
          IN /\ sendArgs' = Append(sendArgs, message)
             /\ IF webhookUrl
                THEN /\ posts' = Append(posts, message)
                     /\ runPc' = "await_post"
                     /\ steps' = steps \o <<"fetch", "format", "sendToGoogleChat">>
                     /\ UNCHANGED exitCode
                ELSE /\ exitCode' = 0
                     /\ runPc' = "exited"
                     /\ steps' = steps \o <<"fetch", "format", "sendToGoogleChat", "exit">>
                     /\ UNCHANGED posts
  /\ UNCHANGED <<entry, fetchVars, historyFile, historyArgs, historyRets,
                 logFile, webhookUrl, clock>>

\* The POST settles, either way; fetchAndSend returns and the process ends.
PostSettles ==
  /\ entry = "send" /\ runPc = "await_post"
  /\ exitCode' = 0
  /\ runPc' = "exited"
  /\ steps' = Append(steps, "exit")
  /\ UNCHANGED <<entry, fetchVars, historyFile, historyArgs, historyRets,
                 logFile, webhookUrl, sendArgs, posts, clock>>

\* ------------------------------------------------------------------ claims
Last(seq) == seq[Len(seq)]
Failed(i) == trials[i].outcome # "success"
\* Both calls of the last finished trial returned, and goldData / silverData
\* still hold what they returned.
LastTrialReturnedBoth ==
  trials # <<>> /\ goldFrom = Len(trials) /\ silverFrom = Len(trials)
\* The price-API calls that the finished trials account for.
RECURSIVE CallsOf(_)
CallsOf(ts) ==
  IF ts = <<>> THEN 0
  ELSE (IF Head(ts).outcome = "gold_threw" THEN 1 ELSE 2) + CallsOf(Tail(ts))
Finished == pc = "returned"
Exhausted == Finished /\ keys # <<>> /\ ~success

\* C1 as claimed: a trial succeeds iff both calls returned without a transport
\* failure and neither answer carries a logical error.
C1_Original ==
  success <=> (LastTrialReturnedBoth /\ goldData.error = "" /\ silverData.error = "")

\* C1, amended: credentials are tried in the shuffled order; a trial succeeds
\* iff both calls returned without a transport failure, both answers have a
\* non-empty body and neither carries an error; the cycle returns the quotes
\* of the first credential in the order whose trial succeeds, and no
\* price-API call is issued with a later credential.
C1_FirstSuccessWins ==
  /\ \A i \in 1..Len(trials) : trials[i].key = keys[i]
  /\ success <=> (/\ LastTrialReturnedBoth
                  /\ ~goldData.falsy /\ goldData.error = ""
                  /\ ~silverData.falsy /\ silverData.error = "")
  /\ \A i \in 1..Len(trials) :
       trials[i].outcome = "success" <=> (success /\ i = Len(trials))
  /\ success =>
       /\ idx = Len(trials)
       /\ Len(calls) = CallsOf(trials)
       /\ Last(calls) = [metal |-> "XAG", currency |-> "USD", token |-> keys[idx]]
  /\ (Finished /\ ~result.isNull) =>
       /\ success
       /\ result.goldRaw = goldData
       /\ result.silverRaw = silverData

C1_Witness ==
  /\ Finished /\ ~result.isNull
  /\ Len(keys) = 3 /\ Len(trials) = 2
  /\ trials[1].outcome = "empty"

\* C2: the gold call and the silver call of a trial carry the same
\* credential, and goldRaw and silverRaw of a returned snapshot come from the
\* two calls of one and the same trial.
C2_SameCredential ==
  /\ \A i \in 1..Len(calls) :
       calls[i].metal = "XAG" =>
         /\ i > 1
         /\ calls[i - 1].metal = "XAU"
         /\ calls[i - 1].token = calls[i].token
  /\ (Finished /\ ~result.isNull) =>
       /\ goldFrom = silverFrom
       /\ goldFrom = idx
       /\ result.goldRaw = goldData
       /\ result.silverRaw = silverData
       /\ calls[Len(calls) - 1].token = keys[idx]
       /\ Last(calls).token = keys[idx]

C2_Witness ==
  /\ Finished /\ ~result.isNull
  /\ Len(trials) = 2
  /\ trials[1].outcome = "silver_threw"
  /\ keys[1] # keys[2]

\* C3 as claimed: after a failed trial the cycle goes on to the next
\* credential, and no credential value is used for more than one trial.
C3_Claim ==
  /\ \A i \in 1..Len(trials) :
       (Failed(i) /\ i < Len(keys)) => idx > i
  /\ \A i \in 1..Len(trials) : \A j \in 1..Len(trials) :
       i # j => trials[i].key # trials[j].key

PoolEmpty == \A i \in 1..Len(env) : IsBlank(env[i])
C5_EmptyPool ==
  (PoolEmpty /\ pc # "start") =>
    /\ Finished
    /\ result = NoCredentialsError
    /\ calls = <<>>
    /\ rateCalls = 0
    /\ trials = <<>>
    /\ Last(log) = Line("nokeys", NoKey)

C5_Witness == Finished /\ env = <<BlankSpaces, BlankEmpty>> /\ calls = <<>>

\* C6 as claimed: the failure of an exhausted pool reaches the caller as a
\* kind of its own, distinct from the failure of an empty pool.
C6_Original ==
  Exhausted =>
    /\ result = AllCredentialsExhaustedError
    /\ result # NoCredentialsError

\* C6, amended: when the pool is not empty and every trial fails, the cycle
\* returns null after one trial per pool entry, in order and without a
\* retry; the caller receives the same null as for an empty pool, and only
\* the console message tells the two failures apart.
C6_Exhausted ==
  Exhausted =>
    /\ result = NullResult
    /\ result = NoCredentialsError
    /\ Len(trials) = Len(keys)
    /\ \A i \in 1..Len(trials) : trials[i].key = keys[i] /\ Failed(i)
    /\ Len(calls) = CallsOf(trials)
    /\ rateCalls = 0
    /\ Last(log) = Line("allfailed", NoKey)
    /\ \A i \in 1..Len(log) : log[i].msg # "nokeys"

C6_Witness ==
  /\ Exhausted /\ Len(keys) = 3
  /\ trials[1].outcome = "gold_threw"
  /\ trials[2].outcome = "logical"
  /\ trials[3].outcome = "silver_threw"

\* C9 as claimed: the rate lookup never raises, and it returns a value other
\* than the fallback only for a well-formed answer with a valid PKR rate.
ValidRate(resp) ==
  ~resp.threw /\ resp.hasRates /\ resp.hasPKR /\ resp.pkr.num /\ resp.pkr.v > 0
C9_Claim ==
  (Finished /\ success) =>
    /\ ~getUSDtoPKR(rateResp).raised
    /\ pkrRate # FallbackRate => ValidRate(rateResp)
    /\ ~ValidRate(rateResp) => pkrRate = FallbackRate


\* C7 as claimed: updateHistory and sendToGoogleChat are reached only with
\* finite, non-negative gold and silver prices.
FinitePrice(n) == n.fin /\ n.v >= 0
C7_Claim ==
  /\ \A i \in 1..Len(historyArgs) :
       /\ FinitePrice(historyArgs[i].gold.perGram)
       /\ FinitePrice(historyArgs[i].silver.perKg)
  /\ \A i \in 1..Len(sendArgs) :
       /\ sendArgs[i].goldPerGram.shown = "digits"
       /\ sendArgs[i].silverPerKg.shown = "digits"

\* C8 as claimed: after a fatal error of the fetch cycle the process ends
\* with a non-zero status, and history, log file and webhook are untouched.
Exited == runPc = "exited"
C8_Claim ==
  (Exited /\ result.isNull) =>
    /\ exitCode > 0
    /\ historyArgs = <<>>
    /\ logFile = <<>>
    /\ sendArgs = <<>>
    /\ posts = <<>>

InitIdleSinks ==
  /\ runPc = "fetching"
  /\ steps = <<>>
  /\ historyFile = FileAbsent
  /\ historyArgs = <<>>
  /\ historyRets = <<>>
  /\ logFile = <<>>
  /\ webhookUrl = FALSE
  /\ sendArgs = <<>>
  /\ posts = <<>>
  /\ exitCode = -1
  /\ clock = 0

Init == entry = "import" /\ InitFetch(MaxKeys) /\ InitIdleSinks

Next ==
  \/ FetchStart
  \/ GoldResolves
  \/ GoldRejects
  \/ SilverResolves
  \/ SilverRejects
  \/ RateSettles

Spec == Init /\ [][Next]_vars

\* The two scripts, each running one fetch cycle.
InitRun == entry \in {"cron", "send"} /\ InitFetch(MaxRunKeys) /\ InitSinks

NextRun ==
  \/ FetchStart
  \/ GoldResolves
  \/ GoldRejects
  \/ SilverResolves
  \/ SilverRejects
  \/ RateSettles
  \/ CronAfterFetch
  \/ CronLogAndExit
  \/ SendAfterFetch
  \/ PostSettles

SpecRun == InitRun /\ [][NextRun]_vars

\* --------------------------------------------- normalisation, on its own
\* Lines 186-210 applied to any pair of accepted quotes and any rate.
QuoteZero ==
  [falsy |-> FALSE, error |-> "", hasPg |-> TRUE, pg |-> 0,
   hasPrice |-> TRUE, price |-> 3100]
QuoteDirectOnly ==
  [falsy |-> FALSE, error |-> "", hasPg |-> TRUE, pg |-> 100,
   hasPrice |-> FALSE, price |-> 0]
QuoteZeroOnly ==
  [falsy |-> FALSE, error |-> "", hasPg |-> TRUE, pg |-> 0,
   hasPrice |-> FALSE, price |-> 0]
NormQuotes ==
  {QuoteDirect, QuoteOunce, QuoteBare, QuoteZero, QuoteDirectOnly, QuoteZeroOnly}
NormRates == {FallbackRate, RateGood.pkr, NotANumber}

InitNorm ==
  /\ entry = "import"
  /\ env = <<KeyA>> /\ keys = <<KeyA>> /\ idx = 1
  /\ pc = "normalise"
  /\ goldData \in NormQuotes
  /\ silverData \in NormQuotes
  /\ success = TRUE
  /\ goldFrom = 1 /\ silverFrom = 1
  /\ calls = <<fetchGoldPrice("USD", KeyA), fetchSilverPrice("USD", KeyA)>>
  /\ inflight = <<>>
  /\ rateCalls = 1
  /\ rateResp = NoRateYet
  /\ pkrRate \in NormRates
  /\ log = <<>>
  /\ trials = <<[key |-> KeyA, outcome |-> "success"]>>
  /\ result = NullResult
  /\ InitIdleSinks

Normalise ==
  /\ pc = "normalise"
  /\ result' = Snapshot(goldData, silverData, pkrRate)
  /\ pc' = "normalised"
  /\ UNCHANGED <<entry, env, keys, idx, goldData, silverData, success,
                 goldFrom, silverFrom, calls, inflight, rateCalls, rateResp,
                 pkrRate, log, trials, sinkVars>>

NextNorm == Normalise

SpecNorm == InitNorm /\ [][NextNorm]_vars

\* C11 as claimed: the direct path is taken whenever the quote carries the
\* field price_gram_24k, whatever its value (0 included): price_gram_24k * rate
\* for gold per gram and price_gram_24k * 1000 * rate for silver per kilogram;
\* the per-ounce path only when the field is absent.
C11_Claim ==
  (pc = "normalised" /\ pkrRate.num) =>
    /\ result.gold =
         IF goldData.hasPg THEN Num((goldData.pg * pkrRate.v) \div 100)
         ELSE PerOunce(goldData, pkrRate, 2)
    /\ result.silver =
         IF silverData.hasPg THEN Num(silverData.pg * 10 * pkrRate.v)
         ELSE PerOunce(silverData, pkrRate, 5)

\* ------------------------------------------------- shuffleArray, on its own
\* shuffleArray applied to any array over three values (repeats included)
\* with any random draws; env holds the array as passed, keys the array as
\* returned.
KeyC == <<"k", "e", "y", "-", "C", "-", "0", "1", "2">>
ShuffleInputs == SeqUpTo({KeyA, KeyB, KeyC}, MaxShuffleLen)

InitShuffle ==
  /\ entry = "import"
  /\ env \in ShuffleInputs
  /\ pc = "shuffle"
  /\ keys = <<>>
  /\ idx = 0
  /\ goldData = NullData
  /\ silverData = NullData
  /\ success = FALSE
  /\ goldFrom = 0
  /\ silverFrom = 0
  /\ calls = <<>>
  /\ inflight = <<>>
  /\ rateCalls = 0
  /\ rateResp = NoRateYet
  /\ pkrRate = FallbackRate
  /\ log = <<>>
  /\ trials = <<>>
  /\ result = NullResult
  /\ InitIdleSinks

ShuffleCall ==
  /\ pc = "shuffle"
  /\ \E draws \in RandomDraws(Len(env)) : keys' = shuffleArray(env, draws)
  /\ pc' = "shuffled"
  /\ UNCHANGED <<entry, env, idx, goldData, silverData, success, goldFrom,
                 silverFrom, calls, inflight, rateCalls, rateResp, pkrRate,
                 log, trials, result, sinkVars>>

NextShuffle == ShuffleCall

SpecShuffle == InitShuffle /\ [][NextShuffle]_vars

\* The rearrangements of positions 1..n.
Bijections(n) == {f \in [1..n -> 1..n] : \A i, j \in 1..n : f[i] = f[j] => i = j}
Rearranged(array, f) == [i \in 1..Len(array) |-> array[f[i]]]
IsPermutationOf(out, array) ==
  /\ Len(out) = Len(array)
  /\ \E f \in Bijections(Len(array)) : out = Rearranged(array, f)

\* C12: whatever the input array and whatever the random draws, the array
\* shuffleArray returns is a permutation of its input, and every permutation
\* of the input is returned for some random draws.
C12_Permutation ==
  pc = "shuffled" =>
    /\ IsPermutationOf(keys, env)
    /\ \A f \in Bijections(Len(env)) :
         \E draws \in RandomDraws(Len(env)) :
           shuffleArray(env, draws) = Rearranged(env, f)

\* A three-element array of distinct values comes back reversed.
C12_Witness ==
  /\ pc = "shuffled"
  /\ env = <<KeyA, KeyB, KeyC>>
  /\ keys = <<KeyC, KeyB, KeyA>>

\* ----------------------------------------------------------- failure log
\* The position in the log of the "attempt" line of trial i.
AttemptLines == {k \in DOMAIN log : log[k].msg = "attempt"}
AttemptAt(i) ==
  CHOOSE k \in AttemptLines : Cardinality({j \in AttemptLines : j <= k}) = i
\* Trial i has an error line of its own: after its attempt line and before
\* the next attempt line or the line of the final failure.
LoggedFailure(i) ==
  \E k \in DOMAIN log :
    /\ log[k].msg = "error"
    /\ log[k].key = maskedKey(trials[i].key)
    /\ k > AttemptAt(i)
    /\ \A j \in DOMAIN log :
         (j > AttemptAt(i) /\ log[j].msg \in {"attempt", "allfailed"}) => k < j

\* C13 as claimed: every failed credential trial, whether a call threw or
\* both calls returned and an answer carried a logical error, has its failure
\* logged before the next credential is tried or the cycle fails.
C13_Claim ==
  \A i \in 1..Len(trials) : Failed(i) => LoggedFailure(i)

\* ------------------------------------------------------- sequential calls
CountCalls(metal) == Cardinality({k \in DOMAIN calls : calls[k].metal = metal})
CountTrials(outcomes) ==
  Cardinality({i \in DOMAIN trials : trials[i].outcome \in outcomes})
InTrial == IF pc \in {"await_gold", "await_silver"} THEN 1 ELSE 0

\* C14: the cycle is strictly sequential.  At most one HTTP request is
\* unanswered at any time; the silver request of a trial is issued only after
\* the gold request of that trial returned without throwing; the gold request
\* of the next credential is issued only after the previous trial has
\* completed or failed; the exchange-rate request is issued at most once per
\* cycle and only after a trial succeeded.
C14_Sequential ==
  /\ Len(inflight) <= 1
  /\ pc = "await_gold" =>
       /\ inflight = <<fetchGoldPrice("USD", keys[idx])>>
       /\ Len(trials) = idx - 1
  /\ pc = "await_silver" =>
       /\ inflight = <<fetchSilverPrice("USD", keys[idx])>>
       /\ goldFrom = idx
       /\ Len(trials) = idx - 1
  /\ pc = "await_rate" =>
       /\ inflight = <<RateRequest>>
       /\ success
       /\ Last(trials).outcome = "success"
  /\ pc \notin {"await_gold", "await_silver", "await_rate"} => inflight = <<>>
  /\ CountCalls("XAU") = Len(trials) + InTrial
  /\ CountCalls("XAG") =
       CountTrials({"silver_threw", "logical", "empty", "success"})
       + (IF pc = "await_silver" THEN 1 ELSE 0)
  /\ \A k \in DOMAIN calls :
       calls[k].metal = "XAG" =>
         k > 1 /\ calls[k - 1] = fetchGoldPrice("USD", calls[k].token)
  /\ rateCalls <= 1
  /\ rateCalls = 1 => success /\ CountTrials({"success"}) = 1

\* After one failed trial the second credential succeeded and the
\* exchange-rate request is the only one unanswered.
C14_Witness ==
  /\ pc = "await_rate"
  /\ Len(trials) = 2
  /\ Failed(1)
  /\ inflight = <<RateRequest>>
  /\ Len(calls) = 4

\* --------------------------------------------- updateHistory, call after call
\* Files whose text holds an entry although it is not a JSON array: an array
\* cut off before its closing bracket, and an object wrapping the entry.
FileCutOff ==
  [exists |-> TRUE, parses |-> FALSE, isArray |-> FALSE, entries |-> <<OldEntry>>]
FileWrapped ==
  [exists |-> TRUE, parses |-> TRUE, isArray |-> FALSE, entries |-> <<OldEntry>>]
HistoryContents == HistoryFiles \cup {FileCutOff, FileWrapped}

\* Values of the argument `prices`.
HistoryPrices ==
  {calculateTolaPrices(GoldPerGram(QuoteDirect, rate), SilverPerKg(QuoteDirect, rate)) :
     rate \in NormRates}

InitHistory ==
  /\ entry = "import"
  /\ env = <<>>
  /\ pc = "idle"
  /\ keys = <<>>
  /\ idx = 0
  /\ goldData = NullData
  /\ silverData = NullData
  /\ success = FALSE
  /\ goldFrom = 0
  /\ silverFrom = 0
  /\ calls = <<>>
  /\ inflight = <<>>
  /\ rateCalls = 0
  /\ rateResp = NoRateYet
  /\ pkrRate = FallbackRate
  /\ log = <<>>
  /\ trials = <<>>
  /\ result = NullResult
  /\ runPc = "fetching"
  /\ steps = <<>>
  /\ historyFile \in HistoryContents
  /\ historyArgs = <<>>
  /\ historyRets = <<>>
  /\ logFile = <<>>
  /\ webhookUrl = FALSE
  /\ sendArgs = <<>>
  /\ posts = <<>>
  /\ exitCode = -1
  /\ clock = 0

\* One call of updateHistory(prices), whole.
HistoryCall ==
  /\ Len(historyRets) < MaxHistoryCalls
  /\ \E prices \in HistoryPrices, io \in IoOutcomes :
       LET done == updateHistory(historyFile, prices, clock + 1, io)
       IN /\ historyArgs' = Append(historyArgs, prices)
          /\ historyFile' = done.file
          /\ historyRets' = Append(historyRets, done.ret)
          /\ clock' = clock + 1
  /\ UNCHANGED <<entry, fetchVars, runPc, steps, logFile, webhookUrl, sendArgs,
                 posts, exitCode>>

NextHistory == HistoryCall

SpecHistory == InitHistory /\ [][NextHistory]_vars

IsPrefix(short, long) ==
  Len(short) <= Len(long) /\ SubSeq(long, 1, Len(short)) = short

\* C15 as claimed: whatever the file held before, a call of updateHistory
\* that returns true keeps every entry the file held, in order, and adds
\* exactly one entry at the end; a call that returns false leaves the stored
\* entries as they were.
C15_Claim ==
  [][ Len(historyRets') = Len(historyRets) + 1 =>
        IF Last(historyRets')
        THEN /\ IsPrefix(historyFile.entries, historyFile'.entries)
             /\ Len(historyFile'.entries) = Len(historyFile.entries) + 1
        ELSE historyFile'.entries = historyFile.entries ]_vars

\* ------------------------------------------------------------- termination
\* The fetch cycle when the program keeps running and every HTTP call
\* returns or fails in the end (each axios.get carries a timeout): a step
\* that can be taken is taken.
InitLive == entry = "import" /\ InitFetch(MaxLiveKeys) /\ InitIdleSinks

SpecLive == InitLive /\ [][Next]_vars /\ WF_vars(Next)

\* N, the number of credentials in the pool.
PoolSize == Len(getAvailableApiKeys(env))

\* C16: when every HTTP call returns or fails in the end, a cycle over a pool
\* of N credentials terminates, with a snapshot or with the failure value,
\* and issues at most 2*N price-API requests and at most one exchange-rate
\* request on the way.
C16_Terminates ==
  /\ <>Finished
  /\ [](Len(calls) <= 2 * PoolSize /\ rateCalls <= 1)
  /\ [](Finished => (result = NullResult \/ ~result.isNull))

\* A finished cycle that used the whole budget: two credentials, four
\* price-API requests, one exchange-rate request, a snapshot.
C16_Witness ==
  /\ Finished
  /\ PoolSize = 2
  /\ Len(calls) = 2 * PoolSize
  /\ rateCalls = 1
  /\ ~result.isNull

\* ------------------------------------------------------------ masked keys
\* The characters of a key that its masked form shows: those of the leading
\* and of the trailing substring, which overlap in a short key.
ShownHead(key) == Substring(key, 0, MaskLen)
ShownTail(key) == Substring(key, Len(key) - MaskLen, Len(key))
OmitsACharacter(key) == Len(key) > Len(ShownHead(key)) + Len(ShownTail(key))

\* C17 as claimed: no log line of a fetch cycle discloses a complete
\* credential; whatever the length of a credential of the pool, the masked
\* form that is logged for it leaves out at least one of its characters.
C17_Claim ==
  \A k \in DOMAIN log : \A i \in DOMAIN keys :
    log[k].key = maskedKey(keys[i]) => OmitsACharacter(keys[i])

====
